---- MODULE Spec2Model ----
(***************************************************************************)
(* csv_to_sqlite (src/csv_to_sqlite.py): a CSV file is read into a data    *)
(* frame, its columns are normalised (dates, numbers, text), a SQLite      *)
(* table is created if absent, the frame is appended to it and the row     *)
(* count is read back.                                                     *)
(*                                                                         *)
(* A CSV cell is a sequence of one-character strings; the empty sequence   *)
(* is an empty cell.  Frame and table values are tagged records.           *)
(***************************************************************************)
EXTENDS Integers, Sequences, FiniteSets, TLC

VARIABLES
    pc,           \* position of csv_to_sqlite: "idle" between calls
    srcExists,    \* whether the csv_file argument of the running call names a file
    csv,          \* contents of the source file: [header, rows]
    df,           \* the data frame: [columns, data], or NoFrame
    conn,         \* the connection object of the call: "none", "open", "closed"
    dbFile,       \* whether the destination database file exists
    table,        \* the destination table: [schema, rows], or NoTable
    out,          \* the lines printed by the running (or last) call
    rowCount,     \* row_count of the running (or last) call, -1 when unset
    hist,         \* bookkeeping over the calls made so far
    datetimeUnit, \* resolution of the installed pandas' datetimes: "ns" or "us"
    probe         \* one column put through normalisation and storage on its own

vars == <<pc, srcExists, csv, df, conn, dbFile, table, out, rowCount, hist,
          datetimeUnit, probe>>

----------------------------------------------------------------------------
(* Bounds *)

MaxRows == 2      \* data rows of the source file
MaxRuns == 2      \* calls of csv_to_sqlite in one behaviour
MaxTail == 1      \* cells following the first one in a probed column

----------------------------------------------------------------------------
(* Characters and decimal numerals *)

Digits == <<"0", "1", "2", "3", "4", "5", "6", "7", "8", "9">>

IsDigit(c) == \E i \in 1..10 : Digits[i] = c

DigitVal(c) == (CHOOSE i \in 1..10 : Digits[i] = c) - 1

AllDigits(s) == \A i \in 1..Len(s) : IsDigit(s[i])

RECURSIVE NumVal(_)
NumVal(s) ==
    IF s = << >> THEN 0
    ELSE 10 * NumVal(SubSeq(s, 1, Len(s) - 1)) + DigitVal(s[Len(s)])

RECURSIVE Pow10(_)
Pow10(e) == IF e = 0 THEN 1 ELSE 10 * Pow10(e - 1)

RECURSIVE Numeral(_)
Numeral(n) ==
    IF n < 10 THEN <<Digits[n + 1]>>
    ELSE Numeral(n \div 10) \o <<Digits[(n % 10) + 1]>>

RECURSIVE ZeroPad(_, _)
ZeroPad(s, w) == IF Len(s) >= w THEN s ELSE ZeroPad(<<"0">> \o s, w)

----------------------------------------------------------------------------
(* Frame values *)

NaN == [t |-> "nan"]
NaT == [t |-> "nat"]
Null == [t |-> "null"]
IntV(v) == [t |-> "int", v |-> v]
StrV(s) == [t |-> "str", s |-> s]
DateV(y, m, d) == [t |-> "date", y |-> y, m |-> m, d |-> d]

RECURSIVE FloatV(_, _, _)
\* the float64 (-1)^neg * m / 10^e, in lowest decimal terms
FloatV(neg, m, e) ==
    IF e > 0 /\ m % 10 = 0 THEN FloatV(neg, m \div 10, e - 1)
    ELSE [t |-> "float", neg |-> (neg /\ m # 0), m |-> m, e |-> e]

IntToFloat(v) == IF v < 0 THEN FloatV(TRUE, -v, 0) ELSE FloatV(FALSE, v, 0)

----------------------------------------------------------------------------
(* pd.read_csv: the type it infers for a column *)

\* cells read_csv takes for a missing value (of its default na_values, the
\* ones the cell alphabet of this model can spell)
NaValues == { << >>, <<"N", "A">> }

IsNa(cell) == cell \in NaValues

\* a decimal numeral: optional sign, digits, optional point and digits;
\* an integer when it has no point (exponents are outside the cell alphabet)
ParseNumber(s) ==
    LET signed == Len(s) > 0 /\ s[1] \in {"+", "-"}
        neg    == Len(s) > 0 /\ s[1] = "-"
        body   == IF signed THEN Tail(s) ELSE s
        dots   == {i \in 1..Len(body) : body[i] = "."}
    IN  IF dots = {} THEN
            IF Len(body) > 0 /\ AllDigits(body)
            THEN IntV(IF neg THEN -NumVal(body) ELSE NumVal(body))
            ELSE NaN
        ELSE IF Cardinality(dots) = 1 THEN
            LET p  == CHOOSE i \in dots : TRUE
                ip == SubSeq(body, 1, p - 1)
                fp == SubSeq(body, p + 1, Len(body))
            IN  IF AllDigits(ip) /\ AllDigits(fp) /\ Len(ip) + Len(fp) > 0
                THEN FloatV(neg, NumVal(ip \o fp), Len(fp))
                ELSE NaN
        ELSE NaN

\* a numeric column holding a float or a NaN is float64 as a whole
Upcast(col) ==
    IF \A i \in 1..Len(col) : col[i].t = "int" THEN col
    ELSE [i \in 1..Len(col) |->
            IF col[i].t = "int" THEN IntToFloat(col[i].v) ELSE col[i]]

ReadCsvColumn(cells) ==
    LET n      == Len(cells)
        parsed == [i \in 1..n |-> IF IsNa(cells[i]) THEN NaN ELSE ParseNumber(cells[i])]
    IN  IF n = 0 THEN << >>
        ELSE IF \A i \in 1..n : IsNa(cells[i]) \/ parsed[i] # NaN
        THEN Upcast(parsed)
        ELSE [i \in 1..n |-> IF IsNa(cells[i]) THEN NaN ELSE StrV(cells[i])]

----------------------------------------------------------------------------
(* Date columns: to_datetime(format='%m/%d/%Y', errors='coerce'),            *)
(* .dt.strftime('%Y-%m-%d'), fillna('1900-01-01')                            *)

RECURSIVE SplitOn(_, _)
SplitOn(s, sep) ==
    IF \A i \in 1..Len(s) : s[i] # sep THEN <<s>>
    ELSE LET p == CHOOSE i \in 1..Len(s) :
                      s[i] = sep /\ \A j \in 1..(i - 1) : s[j] # sep
         IN  <<SubSeq(s, 1, p - 1)>> \o SplitOn(SubSeq(s, p + 1, Len(s)), sep)

IsLeap(y) == (y % 4 = 0 /\ y % 100 # 0) \/ y % 400 = 0

DaysInMonth(y, m) ==
    IF m = 2 THEN (IF IsLeap(y) THEN 29 ELSE 28)
    ELSE IF m \in {4, 6, 9, 11} THEN 30 ELSE 31

DateLeq(a, b) ==
    \/ a.y < b.y
    \/ a.y = b.y /\ a.m < b.m
    \/ a.y = b.y /\ a.m = b.m /\ a.d <= b.d

\* the midnights a nanosecond-resolution Timestamp can hold
NsFirstDay == DateV(1677, 9, 22)
NsLastDay == DateV(2262, 4, 11)

InNsRange(date) == DateLeq(NsFirstDay, date) /\ DateLeq(date, NsLastDay)

\* what the to_datetime of the installed pandas can hold: a nanosecond build
\* coerces a date outside the Timestamp range to NaT, a microsecond one parses it
Representable(unit, date) == unit = "us" \/ InNsRange(date)

\* one string against %m/%d/%Y: month and day of one or two digits, a year
\* of exactly four, nothing before, between or after
Strptime(unit, s) ==
    LET f == SplitOn(s, "/")
    IN  IF Len(f) # 3 THEN NaT
        ELSE IF ~ (AllDigits(f[1]) /\ AllDigits(f[2]) /\ AllDigits(f[3])) THEN NaT
        ELSE IF ~ (Len(f[1]) \in 1..2 /\ Len(f[2]) \in 1..2 /\ Len(f[3]) = 4) THEN NaT
        ELSE LET m == NumVal(f[1])
                 d == NumVal(f[2])
                 y == NumVal(f[3])
             IN  IF m \in 1..12 /\ d \in 1..31 /\ y >= 1
                    /\ d <= DaysInMonth(y, m) /\ Representable(unit, DateV(y, m, d))
                 THEN DateV(y, m, d)
                 ELSE NaT

ToDatetime(unit, col) ==
    [i \in 1..Len(col) |->
        IF col[i].t = "str" THEN Strptime(unit, col[i].s) ELSE NaT]

Strftime(v) ==
    IF v.t = "date"
    THEN StrV(ZeroPad(Numeral(v.y), 4) \o <<"-">> \o ZeroPad(Numeral(v.m), 2)
              \o <<"-">> \o ZeroPad(Numeral(v.d), 2))
    ELSE NaN

DefaultDate == StrV(<<"1", "9", "0", "0", "-", "0", "1", "-", "0", "1">>)

\* FillNa left out
FillNaSkipped(col, default) == col

FillNa(col, default) ==
    [i \in 1..Len(col) |-> IF col[i] = NaN THEN default ELSE col[i]]

NormalizeDate(unit, col) ==
    FillNa([i \in 1..Len(col) |-> Strftime(ToDatetime(unit, col)[i])], DefaultDate)

----------------------------------------------------------------------------
(* Numeric columns: to_numeric(errors='coerce'), fillna, astype(int) *)

ToNumeric(col) ==
    Upcast([i \in 1..Len(col) |->
               IF col[i].t = "str" THEN ParseNumber(col[i].s) ELSE col[i]])

\* Truncate as rounding to the nearest integer
Rounded(v) ==
    IF v.t = "float"
    THEN LET q == v.m \div Pow10(v.e)
             r == v.m % Pow10(v.e)
             n == IF 2 * r >= Pow10(v.e) THEN q + 1 ELSE q
         IN  IntV(IF v.neg THEN -n ELSE n)
    ELSE v

\* int() of a float64: the fraction is dropped, towards zero
Truncate(v) ==
    IF v.t = "float"
    THEN IntV(IF v.neg THEN -(v.m \div Pow10(v.e)) ELSE v.m \div Pow10(v.e))
    ELSE v

AsTypeInt(col) == [i \in 1..Len(col) |-> Truncate(col[i])]

NormalizeFloat(col) == FillNa(ToNumeric(col), FloatV(FALSE, 0, 0))

NormalizeInt(col) == AsTypeInt(FillNa(ToNumeric(col), FloatV(FALSE, 0, 0)))

----------------------------------------------------------------------------
(* Text columns: fillna('').astype(str) *)

\* str() of a value of the frame
PyStr(v) ==
    IF v.t = "int"
    THEN StrV(IF v.v < 0 THEN <<"-">> \o Numeral(-v.v) ELSE Numeral(v.v))
    ELSE IF v.t = "float"
    THEN StrV((IF v.neg THEN <<"-">> ELSE << >>)
              \o Numeral(v.m \div Pow10(v.e)) \o <<".">>
              \o (IF v.e = 0 THEN <<"0">> ELSE ZeroPad(Numeral(v.m % Pow10(v.e)), v.e)))
    ELSE v

AsTypeStr(col) == [i \in 1..Len(col) |-> PyStr(col[i])]

NormalizeText(col) == AsTypeStr(FillNa(col, StrV(<< >>)))

----------------------------------------------------------------------------
(* The destination table *)

\* the columns of CREATE TABLE IF NOT EXISTS, in order
Schema ==
    << <<"order_id", "TEXT">>, <<"order_date", "TEXT">>, <<"ship_date", "TEXT">>,
       <<"ship_mode", "TEXT">>, <<"customer_name", "TEXT">>, <<"segment", "TEXT">>,
       <<"state", "TEXT">>, <<"country", "TEXT">>, <<"market", "TEXT">>,
       <<"region", "TEXT">>, <<"product_id", "TEXT">>, <<"category", "TEXT">>,
       <<"sub_category", "TEXT">>, <<"product_name", "TEXT">>, <<"sales", "REAL">>,
       <<"quantity", "INTEGER">>, <<"discount", "REAL">>, <<"profit", "REAL">>,
       <<"shipping_cost", "REAL">>, <<"order_priority", "TEXT">>,
       <<"year", "INTEGER">> >>

SchemaColumns == {Schema[i][1] : i \in 1..Len(Schema)}

SchemaTypes == [c \in SchemaColumns |->
                   Schema[CHOOSE i \in 1..Len(Schema) : Schema[i][1] = c][2]]

DateColumns == {"order_date", "ship_date"}
FloatColumns == {"sales", "discount", "profit", "shipping_cost"}
IntColumns == {"quantity", "year"}
TextColumns == {"order_id", "ship_mode", "customer_name", "segment", "state",
                "country", "market", "region", "product_id", "category",
                "sub_category", "product_name", "order_priority"}

NoTable == [schema |-> << >>, rows |-> << >>, exists |-> FALSE]

NewTable(types) == [schema |-> types, rows |-> << >>, exists |-> TRUE]

\* CreateTableIfNotExists as DROP TABLE and CREATE TABLE
CreateTableAnew(t) == NewTable(SchemaTypes)

\* CREATE TABLE IF NOT EXISTS: an existing table is left as it is
CreateTableIfNotExists(t) == IF t.exists THEN t ELSE NewTable(SchemaTypes)

\* the value SQLite keeps for v in a column of the declared type; a NaN of
\* the frame is written as NULL
StoreValue(type, v) ==
    IF v = NaN \/ v = NaT THEN Null
    ELSE IF type = "REAL" /\ v.t = "int" THEN IntToFloat(v.v)
    ELSE IF type = "INTEGER" /\ v.t = "float" /\ v.e = 0
    THEN IntV(IF v.neg THEN -v.m ELSE v.m)
    ELSE IF type = "TEXT" THEN PyStr(v)
    ELSE v

----------------------------------------------------------------------------
(* The data frame *)

NoFrame == [columns |-> {}, n |-> 0, data |-> << >>, loaded |-> FALSE]

CsvColumn(file, c) == [i \in 1..Len(file.rows) |-> file.rows[i][c]]

\* pd.read_csv: every column of the header, with its inferred type
ReadCsv(file) ==
    [columns |-> file.header, n |-> Len(file.rows),
     data |-> [c \in file.header |-> ReadCsvColumn(CsvColumn(file, c))],
     loaded |-> TRUE]

\* MissingColumns with the look-ups never failing
MissingColumnsUnchecked(frame) == {}

\* the columns the normalisation indexes and the frame does not have
MissingColumns(frame) == SchemaColumns \ frame.columns

NormalizeColumn(unit, c, col) ==
    IF c \in DateColumns THEN NormalizeDate(unit, col)
    ELSE IF c \in FloatColumns THEN NormalizeFloat(col)
    ELSE IF c \in IntColumns THEN NormalizeInt(col)
    ELSE IF c \in TextColumns THEN NormalizeText(col)
    ELSE col

Normalize(unit, frame) ==
    [frame EXCEPT !.data = [c \in frame.columns |->
                               NormalizeColumn(unit, c, frame.data[c])]]

\* df.to_sql(if_exists='append', index=False): one INSERT naming the frame's
\* columns; a table column the frame lacks is left NULL
FrameRows(t, frame) ==
    [i \in 1..frame.n |->
        [c \in DOMAIN t.schema |->
            IF c \in frame.columns THEN StoreValue(t.schema[c], frame.data[c][i])
            ELSE Null]]

\* AppendRows starting at the frame's second row
AppendRowsAfterFirst(t, frame) ==
    [t EXCEPT !.rows = t.rows \o SubSeq(FrameRows(t, frame), 2, frame.n)]

AppendRows(t, frame) == [t EXCEPT !.rows = t.rows \o FrameRows(t, frame)]

----------------------------------------------------------------------------
(* Source files and destinations the calls are made on *)

\* rows of the source file: one text, one date and one number cell, each
\* repeated over the columns of its kind
SampleRows ==
    { <<<<"1", "0", "0", "1">>, <<"3", "/", "5", "/", "2", "0", "1", "4">>,
        <<"2", "6", "1", ".", "9", "6">>>>,
      <<<< >>, << >>, <<"a", "b", "c">>>>,
      <<<<"a", "b", "c">>, <<"2", "0", "1", "4", "-", "0", "3", "-", "0", "5">>,
        <<"-", "3", ".", "9">>>> }

Headers ==
    { SchemaColumns,
      SchemaColumns \ {"order_date"},
      SchemaColumns \ {"order_priority"},
      SchemaColumns \cup {"row_id"} }

RowOf(header, sample) ==
    [c \in header |->
        IF c \in DateColumns THEN sample[2]
        ELSE IF c \in FloatColumns \cup IntColumns THEN sample[3]
        ELSE sample[1]]

RECURSIVE SeqsUpTo(_, _)
SeqsUpTo(S, n) ==
    IF n = 0 THEN { << >> }
    ELSE LET shorter == SeqsUpTo(S, n - 1)
         IN  shorter \cup {Append(q, x) : q \in shorter, x \in S}

CsvFiles ==
    { [header |-> h, rows |-> [i \in 1..Len(q) |-> RowOf(h, q[i])]] :
        h \in Headers, q \in SeqsUpTo(SampleRows, MaxRows) }

\* tables of the same name made by something else, found in the destination
ForeignTables ==
    { NewTable([c \in SchemaColumns \cup {"notes"} |->
                   IF c \in SchemaColumns THEN SchemaTypes[c] ELSE "TEXT"]),
      NewTable([c \in SchemaColumns \ {"year"} |-> SchemaTypes[c]]) }

NoProbe == [column |-> "", cells |-> << >>, gen |-> << >>, stored |-> << >>,
            done |-> FALSE]

----------------------------------------------------------------------------
(* Exceptions and the two handlers *)

\* what the steps raise; each is a subclass of Exception
ExceptionClasses == {"FileNotFoundError", "PermissionError", "KeyError",
                     "OperationalError"}

\* HandlerFor with the second clause as except sqlite3.Error
HandlerForStoreErrorsOnly(exc) ==
    IF exc = "FileNotFoundError" THEN "notfound"
    ELSE IF exc = "OperationalError" THEN "error"
    ELSE "propagated"

\* the except clause an exception raised in the try block reaches
HandlerFor(exc) ==
    IF exc = "FileNotFoundError" THEN "notfound"
    ELSE IF exc \in ExceptionClasses THEN "error"
    ELSE "propagated"

Line(kind, arg) == [k |-> kind, arg |-> arg]

\* ReadError taking a missing file for an empty one
ReadErrorMissingIgnored(exists, unreadable) ==
    IF unreadable THEN "PermissionError" ELSE "none"

\* pd.read_csv on the source path
ReadError(exists, unreadable) ==
    IF ~ exists THEN "FileNotFoundError"
    ELSE IF unreadable THEN "PermissionError"
    ELSE "none"

\* the exception leaves the try block: the handler's line is printed, if one
\* catches it, and the function returns
Raise(exc) ==
    /\ pc' = "idle"
    /\ out' = IF HandlerFor(exc) = "propagated" THEN out
              ELSE Append(out, Line(HandlerFor(exc), exc))
    /\ hist' = [hist EXCEPT !.last = HandlerFor(exc), !.exc = exc, !.failedAt = pc,
                            !.dirty = (hist.dirty \/ pc = "count")]

----------------------------------------------------------------------------
(* csv_to_sqlite, step by step *)

Init ==
    /\ pc = "idle"
    /\ srcExists = TRUE
    /\ csv \in CsvFiles
    /\ df = NoFrame
    /\ conn = "none"
    /\ \/ dbFile \in BOOLEAN /\ table = NoTable
       \/ dbFile = TRUE /\ table \in ForeignTables
    /\ out = << >>
    /\ rowCount = -1
    /\ hist = [runs |-> 0, okRuns |-> 0, last |-> "none", exc |-> "none",
               failedAt |-> "none", dirty |-> FALSE, created |-> FALSE,
               table0 |-> table, dbFile0 |-> dbFile, tableInit |-> table]
    /\ datetimeUnit \in {"ns", "us"}
    /\ probe = NoProbe

\* csv_to_sqlite(csv_file, db_file, table_name) is called
Call ==
    /\ pc = "idle"
    /\ hist.runs < MaxRuns
    /\ srcExists' \in BOOLEAN
    /\ pc' = "read"
    /\ df' = NoFrame
    /\ conn' = "none"
    /\ out' = <<Line("reading", "csv_file")>>
    /\ rowCount' = -1
    /\ hist' = [hist EXCEPT !.runs = @ + 1, !.last = "running", !.exc = "none",
                            !.failedAt = "none", !.table0 = table,
                            !.dbFile0 = dbFile]
    /\ UNCHANGED <<csv, dbFile, table, datetimeUnit, probe>>

ReadFail ==
    /\ pc = "read"
    /\ \E unreadable \in BOOLEAN :
          /\ ReadError(srcExists, unreadable) # "none"
          /\ Raise(ReadError(srcExists, unreadable))
    /\ UNCHANGED <<srcExists, csv, df, conn, dbFile, table, rowCount,
                   datetimeUnit, probe>>

ReadOk ==
    /\ pc = "read"
    /\ ReadError(srcExists, FALSE) = "none"
    /\ df' = ReadCsv(csv)
    /\ out' = Append(out, Line("loaded", Len(csv.rows)))
    /\ pc' = "normalize"
    /\ UNCHANGED <<srcExists, csv, conn, dbFile, table, rowCount, hist,
                   datetimeUnit, probe>>

NormalizeFail ==
    /\ pc = "normalize"
    /\ MissingColumns(df) # {}
    /\ Raise("KeyError")
    /\ UNCHANGED <<srcExists, csv, df, conn, dbFile, table, rowCount,
                   datetimeUnit, probe>>

NormalizeOk ==
    /\ pc = "normalize"
    /\ MissingColumns(df) = {}
    /\ df' = Normalize(datetimeUnit, df)
    /\ out' = Append(out, Line("connecting", "db_file"))
    /\ pc' = "connect"
    /\ UNCHANGED <<srcExists, csv, conn, dbFile, table, rowCount, hist,
                   datetimeUnit, probe>>

\* sqlite3.connect cannot open the destination
ConnectFail ==
    /\ pc = "connect"
    /\ Raise("OperationalError")
    /\ UNCHANGED <<srcExists, csv, df, conn, dbFile, table, rowCount,
                   datetimeUnit, probe>>

\* sqlite3.connect opens the destination, creating the file if it is absent
ConnectOk ==
    /\ pc = "connect"
    /\ conn' = "open"
    /\ dbFile' = TRUE
    /\ out' = Append(out, Line("creating", "table_name"))
    /\ pc' = "create"
    /\ UNCHANGED <<srcExists, csv, df, table, rowCount, hist, datetimeUnit, probe>>

\* the store fails the CREATE TABLE or its commit
CreateFail ==
    /\ pc = "create"
    /\ Raise("OperationalError")
    /\ UNCHANGED <<srcExists, csv, df, conn, dbFile, table, rowCount,
                   datetimeUnit, probe>>

CreateOk ==
    /\ pc = "create"
    /\ table' = CreateTableIfNotExists(table)
    /\ hist' = [hist EXCEPT !.created = (@ \/ ~ table.exists)]
    /\ out' = Append(out, Line("writing", "table_name"))
    /\ pc' = "insert"
    /\ UNCHANGED <<srcExists, csv, df, conn, dbFile, rowCount, datetimeUnit, probe>>

\* to_sql fails: the table lacks a column of the frame, or the store fails
\* the INSERT; to_sql rolls its transaction back
InsertFail ==
    /\ pc = "insert"
    /\ Raise("OperationalError")
    /\ UNCHANGED <<srcExists, csv, df, conn, dbFile, table, rowCount,
                   datetimeUnit, probe>>

InsertOk ==
    /\ pc = "insert"
    /\ df.columns \subseteq DOMAIN table.schema
    /\ table' = AppendRows(table, df)
    /\ out' = Append(out, Line("verifying", "table_name"))
    /\ pc' = "count"
    /\ UNCHANGED <<srcExists, csv, df, conn, dbFile, rowCount, hist,
                   datetimeUnit, probe>>

\* the store fails the SELECT COUNT(*)
CountFail ==
    /\ pc = "count"
    /\ Raise("OperationalError")
    /\ UNCHANGED <<srcExists, csv, df, conn, dbFile, table, rowCount,
                   datetimeUnit, probe>>

CountOk ==
    /\ pc = "count"
    /\ rowCount' = Len(table.rows)
    /\ out' = Append(out, Line("inserted", Len(table.rows)))
    /\ pc' = "close"
    /\ UNCHANGED <<srcExists, csv, df, conn, dbFile, table, hist, datetimeUnit,
                   probe>>

\* conn.close(), the success line, and the function returns
Close ==
    /\ pc = "close"
    /\ conn' = "closed"
    /\ out' = Append(out, Line("success", "db_file"))
    /\ pc' = "idle"
    /\ hist' = [hist EXCEPT !.last = "success", !.okRuns = @ + 1]
    /\ UNCHANGED <<srcExists, csv, df, dbFile, table, rowCount, datetimeUnit,
                   probe>>

Next ==
    \/ Call
    \/ ReadFail
    \/ ReadOk
    \/ NormalizeFail
    \/ NormalizeOk
    \/ ConnectFail
    \/ ConnectOk
    \/ CreateFail
    \/ CreateOk
    \/ InsertFail
    \/ InsertOk
    \/ CountFail
    \/ CountOk
    \/ Close

Spec == Init /\ [][Next]_vars

----------------------------------------------------------------------------
(* One column on its own: read, normalised and stored as csv_to_sqlite does *)

\* what the table holds for a column of the source file
StoredColumn(unit, c, cells) ==
    LET col == NormalizeColumn(unit, c, ReadCsvColumn(cells))
    IN  [i \in 1..Len(col) |-> StoreValue(SchemaTypes[c], col[i])]

Junk == [k |-> "junk"]

Month(m, pad) == IF pad THEN ZeroPad(Numeral(m), 2) ELSE Numeral(m)

\* the month/day/year spelling of (m, d, y), two-digit fields or shortest
MdyCell(m, d, y, pad) ==
    Month(m, pad) \o <<"/">> \o Month(d, pad) \o <<"/">> \o ZeroPad(Numeral(y), 4)

ProbeMonths == 0..13
ProbeDays == {0, 1, 9, 10, 21, 22, 28, 29, 30, 31, 32}
ProbeYears == {1500, 1677, 1900, 2014, 2016, 2100, 2262, 2300}

OtherDateCells ==
    { << >>, <<"N", "A">>, <<"a", "b", "c">>,
      <<"2", "0", "1", "4", "-", "0", "3", "-", "0", "5">>,
      <<"3", "-", "5", "-", "2", "0", "1", "4">>,
      <<"3", "/", "5", "/", "1", "4">>,
      <<"3", "/", "5">>,
      <<"3", "/", "5", "/", "2", "0", "1", "4", "/", "1">>,
      <<"3", "/", "5", "/", "2", "0", "1", "4", "x">>,
      <<"0", "0", "3", "/", "5", "/", "2", "0", "1", "4">>,
      <<"3", "/", "5", "/", "0", "2", "0", "1", "4">>,
      <<"2", "0", "1", "4">> }

DateProbes ==
    { <<MdyCell(m, d, y, pad), [k |-> "mdy", m |-> m, d |-> d, y |-> y]>> :
        m \in ProbeMonths, d \in ProbeDays, y \in ProbeYears, pad \in BOOLEAN }
    \cup { <<s, Junk>> : s \in OtherDateCells }

\* a decimal numeral: sign, integer digits, and fraction digits after a point
DecimalCell(neg, ip, fp) ==
    (IF neg THEN <<"-">> ELSE << >>) \o ip
    \o (IF fp = << >> THEN << >> ELSE <<".">> \o fp)

ProbeIntParts == { <<"0">>, <<"3">>, <<"0", "0", "7">>, <<"1", "0", "0">>,
                   <<"2", "6", "1">>, <<"2", "0", "1", "4">> }
ProbeFracParts == { << >>, <<"0">>, <<"5">>, <<"9">>, <<"9", "6">>, <<"5", "0">> }

OtherNumberCells ==
    { << >>, <<"N", "A">>, <<"a", "b", "c">>, <<"1", ",", "0", "0", "0">>,
      <<"3", ".", "9", ".", "1">>, <<"-", "-", "3">>, <<"3", "x">>,
      <<"3", "/", "5", "/", "2", "0", "1", "4">> }

NumberProbes ==
    { <<DecimalCell(neg, ip, fp), [k |-> "num", neg |-> neg, ip |-> ip, fp |-> fp]>> :
        neg \in BOOLEAN, ip \in ProbeIntParts, fp \in ProbeFracParts }
    \cup { <<s, Junk>> : s \in OtherNumberCells }

TextProbes ==
    { <<s, Junk>> :
        s \in { << >>, <<"N", "A">>, <<"a", "b", "c">>, <<"A", "-", "1">>,
                <<"1", "0", "0", "1">>, <<"0", "0", "7">>, <<"-", "5">>,
                <<"3", ".", "9">>, <<"1", ".", "5", "0">>,
                <<"3", "/", "5", "/", "2", "0", "1", "4">> } }

\* the cells that follow the first one in a probed column
TailProbes == { <<<< >>, Junk>>, <<<<"7">>, Junk>>, <<<<"x">>, Junk>> }

ProbesFor(c) ==
    IF c \in DateColumns THEN DateProbes
    ELSE IF c \in FloatColumns \cup IntColumns THEN NumberProbes
    ELSE TextProbes

InitCol ==
    /\ pc = "idle"
    /\ srcExists = TRUE
    /\ csv = [header |-> SchemaColumns, rows |-> << >>]
    /\ df = NoFrame
    /\ conn = "none"
    /\ dbFile = FALSE
    /\ table = NoTable
    /\ out = << >>
    /\ rowCount = -1
    /\ hist = [runs |-> 0, okRuns |-> 0, last |-> "none", exc |-> "none",
               failedAt |-> "none", dirty |-> FALSE, created |-> FALSE,
               table0 |-> NoTable, dbFile0 |-> FALSE, tableInit |-> NoTable]
    /\ datetimeUnit \in {"ns", "us"}
    /\ \E c \in SchemaColumns :
       \E head \in ProbesFor(c), tail \in SeqsUpTo(TailProbes, MaxTail) :
          LET all == <<head>> \o tail
          IN  probe = [column |-> c,
                       cells |-> [i \in 1..Len(all) |-> all[i][1]],
                       gen |-> [i \in 1..Len(all) |-> all[i][2]],
                       stored |-> << >>, done |-> FALSE]

StoreProbe ==
    /\ ~ probe.done
    /\ probe' = [probe EXCEPT !.stored = StoredColumn(datetimeUnit, probe.column,
                                                      probe.cells),
                              !.done = TRUE]
    /\ UNCHANGED <<pc, srcExists, csv, df, conn, dbFile, table, out, rowCount,
                   hist, datetimeUnit>>

ProbeDate == probe.column \in DateColumns /\ StoreProbe

ProbeNumber == probe.column \in FloatColumns \cup IntColumns /\ StoreProbe

ProbeText == probe.column \in TextColumns /\ StoreProbe

NextCol ==
    \/ ProbeDate
    \/ ProbeNumber
    \/ ProbeText

SpecCol == InitCol /\ [][NextCol]_vars

----------------------------------------------------------------------------
(* Properties of a call *)

Returned == pc = "idle" /\ hist.runs > 0

DestinationUntouched == dbFile = hist.dbFile0 /\ table = hist.table0

LastLine == out[Len(out)]

\* C1: a call whose source path names no file prints the file-not-found
\* report and leaves the destination as it found it: the connection is never
\* opened, the database file is neither created nor changed, no table is
\* created and no row is inserted.
C1_MissingSourceLeavesDestination ==
    (hist.runs > 0 /\ ~ srcExists) =>
        /\ pc \in {"read", "idle"}
        /\ conn = "none"
        /\ DestinationUntouched
        /\ pc = "idle" =>
              /\ hist.last = "notfound"
              /\ LastLine.k = "notfound" /\ LastLine.arg = "FileNotFoundError"
              /\ \A i \in 1..Len(out) : out[i].k \notin {"error", "success"}

C1_Witness ==
    /\ Returned
    /\ ~ srcExists
    /\ hist.last = "notfound"
    /\ hist.okRuns = 1
    /\ Len(table.rows) = 2

\* C2: whenever csv_to_sqlite has returned after opening the connection, on
\* the success path or after a failure of the table creation, the insert or
\* the count query, the connection is closed.
C2_ConnectionClosedOnReturn == pc = "idle" => conn \in {"none", "closed"}

\* C3: after a successful call that found the destination table empty or
\* absent, the table holds as many rows as the source file has data rows, and
\* that is the count the call reports; sources of no rows included.
C3_RowCount ==
    (Returned /\ hist.last = "success" /\ hist.table0.rows = << >>) =>
        /\ Len(table.rows) = Len(csv.rows)
        /\ rowCount = Len(csv.rows)
        /\ \E i \in 1..Len(out) :
              out[i].k = "inserted" /\ out[i].arg = Len(csv.rows)

C3_Witness ==
    /\ Returned
    /\ hist.last = "success"
    /\ hist.table0.rows = << >>
    /\ hist.table0.exists
    /\ Len(csv.rows) = 2
    /\ rowCount = 2

C3_WitnessEmptySource ==
    /\ Returned
    /\ hist.last = "success"
    /\ Len(csv.rows) = 0
    /\ rowCount = 0

\* C4: a call that finds the table already there passes the table creation
\* with the table, its rows and its schema, as they were, and appends: once
\* k calls have succeeded on a table that started empty or absent, and no
\* other call got as far as inserting, the table holds k times the rows of
\* the source.
C4_CreateIsNoOpAndRunsAppend ==
    /\ (pc = "insert" /\ hist.table0.exists) => table = hist.table0
    /\ (pc = "idle" /\ ~ hist.dirty /\ hist.tableInit.rows = << >>) =>
          Len(table.rows) = hist.okRuns * Len(csv.rows)

C4_Witness ==
    /\ pc = "idle"
    /\ hist.okRuns = 2
    /\ ~ hist.dirty
    /\ Len(csv.rows) = 2
    /\ Len(table.rows) = 4

TypeTag(type) ==
    IF type = "TEXT" THEN "str" ELSE IF type = "REAL" THEN "float" ELSE "int"

ColumnDefault(c) ==
    IF c \in DateColumns
    THEN StrV(<<"1", "9", "0", "0", "-", "0", "1", "-", "0", "1">>)
    ELSE IF c \in FloatColumns THEN [t |-> "float", neg |-> FALSE, m |-> 0, e |-> 0]
    ELSE IF c \in IntColumns THEN IntV(0)
    ELSE StrV(<< >>)

\* sample cells that are missing, or not a value of the column's kind
Unusable(c) ==
    IF c \in DateColumns
    THEN { << >>, <<"2", "0", "1", "4", "-", "0", "3", "-", "0", "5">> }
    ELSE IF c \in FloatColumns \cup IntColumns THEN { << >>, <<"a", "b", "c">> }
    ELSE { << >> }

\* C5: every row of a table this program created has exactly the 21 columns
\* of the schema, none of them null and each of its column's type, and holds
\* the column's default where the source cell was missing or unusable.
C5_NoNullFields ==
    (table.exists /\ hist.created) =>
        \A i \in 1..Len(table.rows) :
            LET r   == table.rows[i]
                src == csv.rows[((i - 1) % Len(csv.rows)) + 1]
            IN  /\ DOMAIN r = SchemaColumns
                /\ Cardinality(DOMAIN r) = 21
                /\ \A c \in SchemaColumns :
                      /\ r[c] \notin {Null, NaN, NaT}
                      /\ r[c].t = TypeTag(SchemaTypes[c])
                      /\ src[c] \in Unusable(c) => r[c] = ColumnDefault(c)

C5_Witness ==
    /\ table.exists
    /\ hist.created
    /\ Len(table.rows) = 4
    /\ \E i \in 1..Len(table.rows) :
          /\ table.rows[i]["ship_date"] = ColumnDefault("ship_date")
          /\ table.rows[i]["quantity"] = IntV(0)
          /\ table.rows[i]["order_id"] = StrV(<< >>)

\* C6: a call in which anything but the missing source file fails returns
\* through the catch-all handler: the error line with the exception's message
\* is the last line printed, nothing propagates to the caller, the steps after
\* the failing one are skipped and the success line is not printed.
C6_CatchAll ==
    /\ hist.last # "propagated"
    /\ (Returned /\ hist.exc \notin {"none", "FileNotFoundError"}) =>
          /\ hist.last = "error"
          /\ LastLine.k = "error" /\ LastLine.arg = hist.exc
          /\ \A i \in 1..Len(out) : out[i].k # "success"
          /\ conn # "closed"
          /\ hist.failedAt \in {"read", "normalize", "connect"} =>
                conn = "none" /\ DestinationUntouched
          /\ hist.failedAt = "create" => table = hist.table0
          /\ hist.failedAt \in {"read", "normalize", "connect", "create", "insert"} =>
                table.rows = hist.table0.rows /\ rowCount = -1

C6_Witness ==
    /\ Returned
    /\ hist.exc = "KeyError"
    /\ hist.last = "error"
    /\ LastLine.k = "error" /\ LastLine.arg = "KeyError"

\* C10: the connection is opened only once the frame is loaded and fully
\* normalised; a call that fails while loading or normalising leaves no
\* connection opened, no database file created, no table created and no row
\* inserted; the table changes only in the create-table and insert steps and
\* the database file comes into being only in the connect step.
C10_BeforeConnect ==
    /\ pc \in {"read", "normalize", "connect"} =>
          conn = "none" /\ DestinationUntouched
    /\ (pc = "idle" /\ hist.failedAt \in {"read", "normalize"}) =>
          conn = "none" /\ DestinationUntouched
    /\ (pc = "connect" \/ conn = "open") =>
          /\ SchemaColumns \subseteq df.columns
          /\ \A c \in SchemaColumns : \A i \in 1..df.n :
                df.data[c][i].t = TypeTag(SchemaTypes[c])

C10_OnlyCreateAndInsertMutate ==
    /\ table' # table => pc \in {"create", "insert"}
    /\ dbFile' # dbFile => pc = "connect"

----------------------------------------------------------------------------
(* Properties of the stored columns *)

Probed(S) == probe.done /\ probe.column \in S

MonthLengths == <<31, 28, 31, 30, 31, 30, 31, 31, 30, 31, 30, 31>>

LeapYear(y) == y % 4 = 0 /\ (y % 100 # 0 \/ y % 400 = 0)

\* (m, d, y) is a day of the calendar
CalendarDate(g) ==
    /\ g.k = "mdy"
    /\ g.m \in 1..12
    /\ g.d >= 1
    /\ g.d <= MonthLengths[g.m] + (IF g.m = 2 /\ LeapYear(g.y) THEN 1 ELSE 0)

\* v is the text YYYY-MM-DD of (y, m, d)
IsIsoOf(v, g) ==
    /\ v.t = "str"
    /\ Len(v.s) = 10
    /\ v.s[5] = "-" /\ v.s[8] = "-"
    /\ \A i \in {1, 2, 3, 4, 6, 7, 9, 10} : IsDigit(v.s[i])
    /\ NumVal(SubSeq(v.s, 1, 4)) = g.y
    /\ NumVal(SubSeq(v.s, 6, 7)) = g.m
    /\ NumVal(SubSeq(v.s, 9, 10)) = g.d

Sentinel == StrV(<<"1", "9", "0", "0", "-", "0", "1", "-", "0", "1">>)

\* C7: in order_date and ship_date, every cell that spells a day of the
\* calendar as month/day/year is stored as that day's YYYY-MM-DD, and every
\* other cell is stored as 1900-01-01.
C7_DatesStoredAsIso ==
    Probed(DateColumns) =>
        \A i \in 1..Len(probe.cells) :
            IF CalendarDate(probe.gen[i])
            THEN IsIsoOf(probe.stored[i], probe.gen[i])
            ELSE probe.stored[i] = Sentinel

\* days every build's Timestamp holds (1677-09-22 to 2262-04-11)
WithinTimestampRange(g) ==
    /\ g.y > 1677 \/ (g.y = 1677 /\ (g.m > 9 \/ (g.m = 9 /\ g.d >= 22)))
    /\ g.y < 2262 \/ (g.y = 2262 /\ (g.m < 4 \/ (g.m = 4 /\ g.d <= 11)))

\* C7 on the days within the Timestamp range, and on the cells that spell no
\* day of the calendar; a day outside the range is stored as one of the two
C7_DatesWithinRange ==
    Probed(DateColumns) =>
        \A i \in 1..Len(probe.cells) :
            LET g == probe.gen[i]
            IN  /\ (CalendarDate(g) /\ WithinTimestampRange(g)) =>
                      IsIsoOf(probe.stored[i], g)
                /\ ~ CalendarDate(g) => probe.stored[i] = Sentinel
                /\ (CalendarDate(g) /\ ~ WithinTimestampRange(g)) =>
                      \/ probe.stored[i] = Sentinel /\ datetimeUnit = "ns"
                      \/ IsIsoOf(probe.stored[i], g) /\ datetimeUnit = "us"

\* v is the float64 of the decimal numeral with integer digits ip and
\* fraction digits fp
IsFloatOf(v, neg, ip, fp) ==
    /\ v.t = "float"
    /\ v.m * Pow10(Len(fp)) = NumVal(ip \o fp) * Pow10(v.e)
    /\ v.neg = (neg /\ NumVal(ip \o fp) # 0)

\* C8: in the numeric columns, a cell that is a number is stored as that
\* number in the column's type, float for sales, discount, profit and
\* shipping_cost, and for quantity and year the integer left when the
\* fraction is dropped (3.9 as 3, -3.9 as -3); any other cell is stored as
\* 0.0, or 0 in the integer columns.
C8_NumbersStoredInColumnType ==
    Probed(FloatColumns \cup IntColumns) =>
        \A i \in 1..Len(probe.cells) :
            LET g == probe.gen[i]
                v == probe.stored[i]
                n == Len(probe.cells[i])
                numeric == /\ n > 0
                           /\ \A j \in 1..n : IsDigit(probe.cells[i][j])
            IN  IF g.k = "num"
                THEN IF probe.column \in FloatColumns
                     THEN IsFloatOf(v, g.neg, g.ip, g.fp)
                     ELSE v = IntV(IF g.neg THEN -NumVal(g.ip) ELSE NumVal(g.ip))
                ELSE IF numeric
                THEN IF probe.column \in FloatColumns
                     THEN IsFloatOf(v, FALSE, probe.cells[i], << >>)
                     ELSE v = IntV(NumVal(probe.cells[i]))
                ELSE IF probe.column \in FloatColumns
                THEN v = [t |-> "float", neg |-> FALSE, m |-> 0, e |-> 0]
                ELSE v = IntV(0)

C8_Witness ==
    /\ Probed({"quantity"})
    /\ probe.cells = << <<"-", "3", ".", "9">>, <<"x">> >>
    /\ probe.stored = <<IntV(-3), IntV(0)>>

\* C9: in the 13 text columns the stored value is the text of the cell, and
\* the empty string for a missing cell; a cell that looks like a number is
\* stored as its own text, whatever the other cells of the column are.
C9_TextStoredAsWritten ==
    Probed(TextColumns) =>
        \A i \in 1..Len(probe.cells) :
            probe.stored[i] =
                StrV(IF IsNa(probe.cells[i]) THEN << >> ELSE probe.cells[i])

====
